---- MODULE Spec2Model ----
\* Model of the NVDA portable-build pipeline (scripts/*.py).
\*
\* Four specifications share the module:
\*   SpecResolver  get_nvda_info / get_latest_nvda_version over bounded pages
\*   SpecVerifier  test_nvda / test_nvda_portable, one step per statement
\*   SpecSetup     setup_nvda / install_nvda / install_addon / create_portable_copy
\*   Spec          the workflow_tasks command line over a small filesystem
EXTENDS Integers, Sequences, FiniteSets, TLC

VARIABLES
    page,        \* resolver: text of the fetched releases page, a sequence of lines
    reachable,   \* resolver: whether requests.get(url) returns (FALSE: it raises)
    argVersion,  \* resolver: the version argument of get_nvda_info ("" = none)
    githubEnvSet,\* resolver: whether os.environ has GITHUB_ENV
    rPc,         \* resolver: "ready" | "done"
    rLatest,     \* resolver: outcome of get_latest_nvda_version (or not called)
    rResult,     \* resolver: result dict returned by get_nvda_info
    rEnvFile,    \* resolver: lines appended to the GITHUB_ENV file
    rStdout,     \* resolver: lines get_latest_nvda.py printed on standard output
    vIn,         \* verifier: what the environment does in this run (see VerifierInputs)
    vPc,         \* verifier: position in test_nvda / test_nvda_portable
    vClock,      \* verifier: seconds slept since test_nvda_portable was entered
    vSleep,      \* verifier: seconds left of the current time.sleep
    vLaunch,     \* verifier: "none" | "started" | "raised" (subprocess.Popen)
    vConnects,   \* verifier: the connect_ex calls made, each [at, target, raised, result]
    vKills,      \* verifier: number of taskkill commands issued
    vSuccess,    \* verifier: the local `success` (FALSE until it is assigned)
    vReturn,     \* verifier: [done, value]: whether test_nvda_portable returned, and what
    vResult,     \* verifier: result dict returned by test_nvda
    sAdmin,      \* setup: what is_admin() returns
    sPc,         \* setup: position in setup_nvda and the functions it calls
    sSleep,      \* setup: seconds left of the current time.sleep
    sWaited,     \* setup: seconds slept so far in create_portable_copy's wait (line 259)
    sExists,     \* setup: the install directories that hold nvda.exe
    sRunning,    \* setup: whether an nvda.exe process may be running
    sKills,      \* setup: number of taskkill commands issued
    sTask,       \* setup: [present, runs] of the scheduled task NVDA_Portable_Task
    sMarkerAt,   \* setup: second of the wait at which <portable>/nvda.exe appeared, -1 while absent
    sSteps,      \* setup: the steps of setup_nvda started so far, in order
    sError,      \* setup: message of the exception being propagated ("" if none)
    sRaised,     \* setup: the exceptions raised so far, with the place that raised
    sCpc,        \* setup: [outcome, at, result] of the create_portable_copy call
    sResult,     \* setup: [done, result] of setup_nvda
    fs,          \* workflow: the artifacts in the working directory
    ghEnv,       \* workflow: the lines of the GITHUB_ENV file, as <<key, value>>
    wRuns,       \* workflow: number of command-line invocations so far
    wLast        \* workflow: the last invocation: its inputs, result, stderr and exit code

resolverVars == <<page, reachable, argVersion, githubEnvSet, rPc, rLatest, rResult, rEnvFile,
                  rStdout>>

verifierVars == <<vIn, vPc, vClock, vSleep, vLaunch, vConnects, vKills, vSuccess, vReturn, vResult>>

setupVars == <<sAdmin, sPc, sSleep, sWaited, sExists, sRunning, sKills, sTask,
               sMarkerAt, sSteps, sError, sRaised, sCpc,
               sResult>>

workflowVars == <<fs, ghEnv, wRuns, wLast>>

vars == <<resolverVars, verifierVars, setupVars, workflowVars>>

\* what each component leaves alone
notResolver == <<verifierVars, setupVars, workflowVars>>
notVerifier == <<resolverVars, setupVars, workflowVars>>
notSetup == <<resolverVars, verifierVars, workflowVars>>
notWorkflow == <<resolverVars, verifierVars, setupVars>>

-----------------------------------------------------------------------------
\* Bounds

MaxLines == 3

MaxRuns == 3

-----------------------------------------------------------------------------
\* get_latest_nvda.py

\* A line of the page is a sequence of whitespace-separated tokens.
\* "stable", "->", "beta", "rc" are the substrings the code tests for, a
\* version token is text matching \d{4}\.\d+\.\d+ (with the optional ./
\* prefix the first pattern skips), "txt" is any other text.
PageVersions == {"2025.1.1", "2023.3.5"}

FALLBACK_VERSION == "2024.4.2"

PageLines ==
    { <<"stable", "->", "2025.1.1">>,
      <<"stable", "->", "2023.3.5">>,
      <<"stable", "txt", "->">>,
      <<"2025.1.1", "txt">>,
      <<"2023.3.5", "txt">>,
      <<"2025.1.1", "beta", "txt">>,
      <<"2023.3.5", "rc", "txt">>,
      <<"2023.3.5">>,
      <<"txt">> }

Pages == UNION { [1..n -> PageLines] : n \in 0..MaxLines }

\* `tok in line`
Contains(line, tok) == \E i \in 1..Len(line) : line[i] = tok

\* line 27: "stable" in line and "->" in line
StableCandidate(line) == Contains(line, "stable") /\ Contains(line, "->")

\* lines 25-29: the first candidate line, <<>> for None
StableEntry(p) ==
    IF \E i \in 1..Len(p) : StableCandidate(p[i])
    THEN p[CHOOSE i \in 1..Len(p) :
               /\ StableCandidate(p[i])
               /\ \A j \in 1..(i-1) : ~StableCandidate(p[j])]
    ELSE <<>>

\* line 33: re.search(r'stable\s+\\?->\s+\.?\.?/?\.?/?(\d+\.\d+\.\d+)', line)
\* the positions where "stable", "->" and a version follow one another
StableMatchAt(line) ==
    { i \in 1..(Len(line) - 2) :
        /\ line[i] = "stable"
        /\ line[i+1] = "->"
        /\ line[i+2] \in PageVersions }

\* group(1) of the leftmost match, "" when the pattern does not match
StableMatch(line) ==
    IF StableMatchAt(line) = {} THEN ""
    ELSE line[(CHOOSE i \in StableMatchAt(line) :
                  \A j \in StableMatchAt(line) : i <= j) + 2]

\* line 42: re.match(r'^(\d{4}\.\d+\.\d+)\s+', line): a leading version
\* followed by whitespace, so by at least one more token
VersionEntry(line) == Len(line) >= 2 /\ line[1] \in PageVersions

\* lines 39-44: the versions list
ListedVersions(p) ==
    LET keep(line) == /\ VersionEntry(line)
                      /\ ~Contains(line, "beta")
                      /\ ~Contains(line, "rc")
        kept == SelectSeq(p, keep)
    IN  [i \in 1..Len(kept) |-> kept[i][1]]

Raised(msg) == [raised |-> TRUE, value |-> msg]
Returned(v) == [raised |-> FALSE, value |-> v]
NotCalled == [raised |-> FALSE, value |-> "<not called>"]

\* A resolver that breaks on the first candidate line but raises instead of
\* falling back to the known version.
get_latest_nvda_version_nofallback(p, reach) ==
    IF ~reach THEN Raised("ConnectionError")
    ELSE IF StableEntry(p) # <<>> /\ StableMatch(StableEntry(p)) # ""
         THEN Returned(StableMatch(StableEntry(p)))
    ELSE IF ListedVersions(p) # <<>>
         THEN Returned(ListedVersions(p)[1])
    ELSE Raised("ResolutionError")

\* lines 12-51
get_latest_nvda_version(p, reach) ==
    IF ~reach THEN Raised("ConnectionError")
    ELSE IF StableEntry(p) # <<>> /\ StableMatch(StableEntry(p)) # ""
         THEN Returned(StableMatch(StableEntry(p)))
    ELSE IF ListedVersions(p) # <<>>
         THEN Returned(ListedVersions(p)[1])
    ELSE Returned(FALLBACK_VERSION)

\* lines 53-63
get_nvda_download_url(version) ==
    "https://download.nvaccess.org/releases/" \o version \o "/nvda_" \o version \o ".exe"

-----------------------------------------------------------------------------
\* workflow_tasks.py: get_nvda_info

Success(fields) == [success |-> TRUE, error |-> "", fields |-> fields]
Failure(msg) == [success |-> FALSE, error |-> msg, fields |-> <<>>]
NoResult == [success |-> FALSE, error |-> "<no result>", fields |-> <<>>]

\* A task that resolves the latest version on every run, whatever version
\* it was given.
get_nvda_info_fetch(version, p, reach, ghSet) ==
    LET latest == get_latest_nvda_version(p, reach)
        v == latest.value
        url == get_nvda_download_url(v)
    IN  IF latest.raised \/ ~ghSet
        THEN [latest |-> latest,
              result |-> Failure("Failed to get NVDA info"),
              appended |-> <<>>]
        ELSE [latest |-> latest,
              result |-> Success(<<v, url>>),
              appended |-> << <<"NVDA_VERSION", v>>, <<"NVDA_DOWNLOAD_URL", url>> >>]

\* lines 31-53: [latest, result, appended] for a version argument, a page and
\* the environment. `not version` is true of None and of the empty string.
get_nvda_info(version, p, reach, ghSet) ==
    LET latest == IF version = "" THEN get_latest_nvda_version(p, reach)
                  ELSE NotCalled
        v == IF version = "" THEN latest.value ELSE version
        url == get_nvda_download_url(v)
    IN  IF latest.raised
        THEN [latest |-> latest,
              result |-> Failure("Failed to get NVDA info: " \o latest.value),
              appended |-> <<>>]
        ELSE IF ~ghSet
        THEN [latest |-> latest,
              result |-> Failure("Failed to get NVDA info: 'GITHUB_ENV'"),
              appended |-> <<>>]
        ELSE [latest |-> latest,
              result |-> Success(<<v, url>>),
              appended |-> << <<"NVDA_VERSION", v>>, <<"NVDA_DOWNLOAD_URL", url>> >>]

\* the version argument of a run: none (the empty string), a version the
\* page may also list, or a string the page's patterns would not accept
ArgVersions == {""} \cup PageVersions \cup {"2024.1beta1"}

ResolverInit ==
    /\ page \in Pages
    /\ reachable \in BOOLEAN
    /\ argVersion \in ArgVersions
    /\ githubEnvSet \in BOOLEAN
    /\ rPc = "ready"
    /\ rLatest = NotCalled
    /\ rResult = NoResult
    /\ rEnvFile = <<>>
    /\ rStdout = <<>>

\* the resolver's variables while another specification runs
ResolverIdle ==
    /\ page = <<>>
    /\ reachable = TRUE
    /\ argVersion = ""
    /\ githubEnvSet = TRUE
    /\ rPc = "idle"
    /\ rLatest = NotCalled
    /\ rResult = NoResult
    /\ rEnvFile = <<>>
    /\ rStdout = <<>>

\* one run of the get_nvda_info task
GetNvdaInfo ==
    /\ rPc = "ready"
    /\ LET out == get_nvda_info(argVersion, page, reachable, githubEnvSet)
       IN  /\ rLatest' = out.latest
           /\ rResult' = out.result
           /\ rEnvFile' = rEnvFile \o out.appended
    /\ rPc' = "done"
    /\ UNCHANGED <<page, reachable, argVersion, githubEnvSet, rStdout>>
    /\ UNCHANGED notResolver

\* json.dumps of a dict, as one printed line: its keys and their values
JsonLine(keys, values) == [keys |-> keys, values |-> values]

\* get_latest_nvda.py lines 65-81: what the script run with this argument
\* prints on standard output. With no argument it resolves the latest
\* version, and whatever that raises leaves the script uncaught: a traceback
\* on standard error and nothing printed.
get_latest_nvda_main(version, p, reach) ==
    LET latest == IF version = "" THEN get_latest_nvda_version(p, reach)
                  ELSE NotCalled
        v == IF version = "" THEN latest.value ELSE version
    IN  [latest |-> latest,
         stdout |-> IF latest.raised THEN <<>>
                    ELSE << JsonLine({"version", "url"},
                                     <<v, get_nvda_download_url(v)>>) >>]

\* one run of the get_latest_nvda.py script
GetLatestMain ==
    /\ rPc = "ready"
    /\ LET out == get_latest_nvda_main(argVersion, page, reachable)
       IN  /\ rLatest' = out.latest
           /\ rStdout' = rStdout \o out.stdout
    /\ rPc' = "script_done"
    /\ UNCHANGED <<page, reachable, argVersion, githubEnvSet, rResult, rEnvFile>>
    /\ UNCHANGED notResolver

-----------------------------------------------------------------------------
\* test_nvda_portable.py and workflow_tasks.py: test_nvda

SETTLE_SECONDS == 15

KILL_WAIT_SECONDS == 2

AT_AUTOMATION_PORT == 8765

\* line 46: the address connect_ex is given
ConnectTarget == <<"127.0.0.1", AT_AUTOMATION_PORT>>

\* What the environment does in one run:
\*   pathSet      os.environ has PORTABLE_PATH
\*   popenRaises  subprocess.Popen raises (nvda.exe missing, not executable)
\*   sockRaises   the socket call that raises: "none", "socket", "connect_ex", "close"
\*   listening    whether port 8765 accepts the connection when it is tried
VerifierInputs ==
    [pathSet : BOOLEAN,
     popenRaises : BOOLEAN,
     sockRaises : {"none", "socket", "connect_ex", "close"},
     listening : BOOLEAN]

\* connect_ex returns 0 on success and an errno otherwise
ECONNREFUSED == 10061

ConnectEx(listening) == IF listening THEN 0 ELSE ECONNREFUSED

VerifierInit ==
    /\ vIn \in VerifierInputs
    /\ vPc = "test_nvda"
    /\ vClock = 0
    /\ vSleep = 0
    /\ vLaunch = "none"
    /\ vConnects = <<>>
    /\ vKills = 0
    /\ vSuccess = FALSE
    /\ vReturn = [done |-> FALSE, value |-> FALSE]
    /\ vResult = NoResult

VerifierIdle ==
    /\ vIn = [pathSet |-> TRUE, popenRaises |-> FALSE,
              sockRaises |-> "none", listening |-> TRUE]
    /\ vPc = "idle"
    /\ vClock = 0
    /\ vSleep = 0
    /\ vLaunch = "none"
    /\ vConnects = <<>>
    /\ vKills = 0
    /\ vSuccess = FALSE
    /\ vReturn = [done |-> FALSE, value |-> FALSE]
    /\ vResult = NoResult

VGoto(pc) == vPc' = pc

\* workflow_tasks.py 166-167: os.environ['PORTABLE_PATH'] raises KeyError
\* inside the try when unset; otherwise test_nvda_portable is entered
TestNvdaEnter ==
    /\ vPc = "test_nvda"
    /\ IF vIn.pathSet
       THEN /\ VGoto("popen")
            /\ UNCHANGED vResult
       ELSE /\ VGoto("task_done")
            /\ vResult' = Failure("Failed to test NVDA portable: 'PORTABLE_PATH'")
    /\ UNCHANGED <<vIn, vClock, vSleep, vLaunch, vConnects, vKills, vSuccess, vReturn>>
    /\ UNCHANGED notVerifier

\* test_nvda_portable.py 38-40: Popen, then time.sleep(15) begins
Popen ==
    /\ vPc = "popen"
    /\ IF vIn.popenRaises
       THEN /\ vLaunch' = "raised"
            /\ VGoto("except")
            /\ UNCHANGED vSleep
       ELSE /\ vLaunch' = "started"
            /\ VGoto("settle")
            /\ vSleep' = SETTLE_SECONDS
    /\ UNCHANGED <<vIn, vClock, vConnects, vKills, vSuccess, vReturn, vResult>>
    /\ UNCHANGED notVerifier

\* one second of a time.sleep (line 40 or line 62)
SleepTick ==
    /\ vPc \in {"settle", "kill_wait"}
    /\ vSleep > 0
    /\ vSleep' = vSleep - 1
    /\ vClock' = vClock + 1
    /\ UNCHANGED <<vIn, vPc, vLaunch, vConnects, vKills, vSuccess, vReturn, vResult>>
    /\ UNCHANGED notVerifier

\* line 45: socket.socket(...); the inner except (55-57) sets success False
SocketCreate ==
    /\ vPc = "settle"
    /\ vSleep = 0
    /\ IF vIn.sockRaises = "socket"
       THEN /\ vSuccess' = FALSE
            /\ VGoto("kill")
       ELSE /\ VGoto("connect")
            /\ UNCHANGED vSuccess
    /\ UNCHANGED <<vIn, vClock, vSleep, vLaunch, vConnects, vKills, vReturn, vResult>>
    /\ UNCHANGED notVerifier

\* line 46: the connect attempt, recorded with the time it is made, its
\* target, whether connect_ex raised and the value it returned
SocketConnect ==
    /\ vPc = "connect"
    /\ LET raises == vIn.sockRaises = "connect_ex"
       IN  /\ vConnects' = Append(vConnects,
                                  [at |-> vClock, target |-> ConnectTarget,
                                   raised |-> raises,
                                   result |-> ConnectEx(vIn.listening)])
           /\ IF raises
              THEN vSuccess' = FALSE /\ VGoto("kill")
              ELSE UNCHANGED vSuccess /\ VGoto("close")
    /\ UNCHANGED <<vIn, vClock, vSleep, vLaunch, vKills, vReturn, vResult>>
    /\ UNCHANGED notVerifier

\* line 49: the test on connect_ex's return value
ConnectSucceeded_always(result) == TRUE

ConnectSucceeded(result) == result = 0

\* lines 47-57: sock.close(), then success from the connect result
SocketClose ==
    /\ vPc = "close"
    /\ IF vIn.sockRaises = "close"
       THEN vSuccess' = FALSE
       ELSE vSuccess' = ConnectSucceeded(vConnects[Len(vConnects)].result)
    /\ VGoto("kill")
    /\ UNCHANGED <<vIn, vClock, vSleep, vLaunch, vConnects, vKills, vReturn, vResult>>
    /\ UNCHANGED notVerifier

\* lines 59-62: os.system('taskkill /f /im nvda.exe'), then time.sleep(2) begins
KillNvda ==
    /\ vPc = "kill"
    /\ vKills' = vKills + 1
    /\ vSleep' = KILL_WAIT_SECONDS
    /\ VGoto("kill_wait")
    /\ UNCHANGED <<vIn, vClock, vLaunch, vConnects, vSuccess, vReturn, vResult>>
    /\ UNCHANGED notVerifier

\* line 64: return success
ReturnSuccess ==
    /\ vPc = "kill_wait"
    /\ vSleep = 0
    /\ vReturn' = [done |-> TRUE, value |-> vSuccess]
    /\ VGoto("returned")
    /\ UNCHANGED <<vIn, vClock, vSleep, vLaunch, vConnects, vKills, vSuccess, vResult>>
    /\ UNCHANGED notVerifier

\* an outer handler that forgets the cleanup
ExceptHandler_nokill ==
    /\ vPc = "except"
    /\ vReturn' = [done |-> TRUE, value |-> FALSE]
    /\ VGoto("returned")
    /\ UNCHANGED <<vIn, vClock, vSleep, vLaunch, vConnects, vKills, vSuccess, vResult>>
    /\ UNCHANGED notVerifier

\* lines 65-72: the outer handler kills nvda.exe and returns False
ExceptHandler ==
    /\ vPc = "except"
    /\ vKills' = vKills + 1
    /\ vReturn' = [done |-> TRUE, value |-> FALSE]
    /\ VGoto("returned")
    /\ UNCHANGED <<vIn, vClock, vSleep, vLaunch, vConnects, vSuccess, vResult>>
    /\ UNCHANGED notVerifier

\* workflow_tasks.py 168-172: the result test_nvda builds from the boolean
TestNvdaReturn ==
    /\ vPc = "returned"
    /\ vResult' = IF vReturn.value THEN Success(<<>>)
                  ELSE Failure("NVDA portable test failed")
    /\ VGoto("task_done")
    /\ UNCHANGED <<vIn, vClock, vSleep, vLaunch, vConnects, vKills, vSuccess, vReturn>>
    /\ UNCHANGED notVerifier

-----------------------------------------------------------------------------
\* configure_nvda.py: setup_nvda, install_nvda, install_addon, create_portable_copy

INSTALL_SETTLE_SECONDS == 5

CPC_KILL_WAIT_SECONDS == 2

PORTABLE_WAIT_SECONDS == 10

\* the directories an installation may put nvda.exe in: %ProgramFiles%\NVDA
\* and %ProgramFiles(x86)%\NVDA
InstallDirs == {"ProgramFiles", "ProgramFiles(x86)"}

\* line 139: the one path install_nvda looks at
DefaultInstallDir == "ProgramFiles(x86)"

\* lines 185-190: possible_paths, in order; the two environment variables
\* name the two literal directories
possible_paths ==
    <<"ProgramFiles", "ProgramFiles(x86)", "ProgramFiles", "ProgramFiles(x86)">>

\* lines 179-199: the first listed path that holds nvda.exe, or
\* FileNotFoundError with every path that was checked. No step calls it.
find_nvda_exe(exists) ==
    LET hits == { i \in 1..Len(possible_paths) : possible_paths[i] \in exists }
    IN  IF hits # {}
        THEN [raised |-> FALSE,
              value |-> possible_paths[CHOOSE i \in hits : \A j \in hits : i <= j],
              checked |-> <<>>]
        ELSE [raised |-> TRUE,
              value |-> "Could not find nvda.exe. Checked the following paths:",
              checked |-> possible_paths]

NoCall == [outcome |-> "none", at |-> 0, result |-> NoResult]

SetupInit ==
    /\ sAdmin \in BOOLEAN
    /\ sPc = "setup_nvda"
    /\ sSleep = 0
    /\ sWaited = 0
    /\ sExists = {}
    /\ sRunning = FALSE
    /\ sKills = 0
    /\ sTask = [present |-> FALSE, runs |-> 0]
    /\ sMarkerAt \in {-1, 0}
    /\ sSteps = <<>>
    /\ sError = ""
    /\ sRaised = <<>>
    /\ sCpc = NoCall
    /\ sResult = [done |-> FALSE, result |-> NoResult]

SetupIdle ==
    /\ sAdmin = TRUE
    /\ sPc = "idle"
    /\ sSleep = 0
    /\ sWaited = 0
    /\ sExists = {}
    /\ sRunning = FALSE
    /\ sKills = 0
    /\ sTask = [present |-> FALSE, runs |-> 0]
    /\ sMarkerAt = -1
    /\ sSteps = <<>>
    /\ sError = ""
    /\ sRaised = <<>>
    /\ sCpc = NoCall
    /\ sResult = [done |-> FALSE, result |-> NoResult]

\* an exception leaves the current function: message and where it lands
SRaise(msg, handler) ==
    /\ sError' = msg
    /\ sRaised' = Append(sRaised, [at |-> sPc, error |-> msg])
    /\ sPc' = handler

\* lines 134-136: the installer runs (check=True); it may fail; when it
\* succeeds it leaves nvda.exe in some of the install directories and may
\* auto-launch NVDA
InstallRun ==
    /\ sPc = "setup_nvda"
    /\ sSteps' = Append(sSteps, "install_nvda")
    /\ \E ok \in BOOLEAN, dirs \in SUBSET InstallDirs, launched \in BOOLEAN :
          /\ sRunning' = (ok /\ launched)
          /\ IF ok
             THEN /\ sExists' = dirs
                  /\ sPc' = "install_check"
                  /\ UNCHANGED <<sError, sRaised>>
             ELSE /\ SRaise("Command failed", "setup_except")
                  /\ UNCHANGED sExists
    /\ UNCHANGED <<sAdmin, sSleep, sWaited, sKills, sTask, sMarkerAt, sCpc, sResult>>
    /\ UNCHANGED notSetup

\* lines 139-146: the default path must hold nvda.exe; then time.sleep(5) begins
InstallCheck ==
    /\ sPc = "install_check"
    /\ IF DefaultInstallDir \in sExists
       THEN /\ sPc' = "install_settle"
            /\ sSleep' = INSTALL_SETTLE_SECONDS
            /\ UNCHANGED <<sError, sRaised>>
       ELSE /\ SRaise("NVDA executable not found at expected path", "setup_except")
            /\ UNCHANGED sSleep
    /\ UNCHANGED <<sAdmin, sWaited, sExists, sRunning, sKills, sTask, sMarkerAt,
                   sSteps, sCpc, sResult>>
    /\ UNCHANGED notSetup

\* one second of a time.sleep (lines 146, 226, 259); the seconds of the wait
\* for the portable copy are counted in sWaited
SetupSleepTick ==
    /\ sPc \in {"install_settle", "cpc_kill_wait", "cpc_wait"}
    /\ sSleep > 0
    /\ sSleep' = sSleep - 1
    /\ sWaited' = IF sPc = "cpc_wait" THEN sWaited + 1 ELSE sWaited
    /\ UNCHANGED <<sAdmin, sPc, sExists, sRunning, sKills, sTask, sMarkerAt,
                   sSteps, sError, sRaised, sCpc, sResult>>
    /\ UNCHANGED notSetup

\* lines 147-149: taskkill (check=False), return nvda_path
InstallKill ==
    /\ sPc = "install_settle"
    /\ sSleep = 0
    /\ sKills' = sKills + 1
    /\ sRunning' = FALSE
    /\ sPc' = "install_addon"
    /\ UNCHANGED <<sAdmin, sSleep, sWaited, sExists, sTask, sMarkerAt, sSteps,
                   sError, sRaised, sCpc, sResult>>
    /\ UNCHANGED notSetup

\* A setup_nvda that goes on to the portable copy when installing the
\* add-on raised.
InstallAddon_swallow ==
    /\ sPc = "install_addon"
    /\ sSteps' = Append(sSteps, "install_addon")
    /\ \E ok \in BOOLEAN :
          IF ok
          THEN sPc' = "create_portable_copy" /\ UNCHANGED <<sError, sRaised>>
          ELSE /\ sRaised' = Append(sRaised, [at |-> sPc, error |-> "Error installing addon"])
               /\ sPc' = "create_portable_copy"
               /\ UNCHANGED sError
    /\ UNCHANGED <<sAdmin, sSleep, sWaited, sExists, sRunning, sKills, sTask,
                   sMarkerAt, sCpc, sResult>>
    /\ UNCHANGED notSetup

\* lines 155-177: makedirs and copy2; anything they raise is re-raised
InstallAddon ==
    /\ sPc = "install_addon"
    /\ sSteps' = Append(sSteps, "install_addon")
    /\ \E ok \in BOOLEAN :
          IF ok
          THEN sPc' = "create_portable_copy" /\ UNCHANGED <<sError, sRaised>>
          ELSE SRaise("Error installing addon", "setup_except")
    /\ UNCHANGED <<sAdmin, sSleep, sWaited, sExists, sRunning, sKills, sTask,
                   sMarkerAt, sCpc, sResult>>
    /\ UNCHANGED notSetup

\* lines 213-217: the privilege check stands before the try, so its
\* exception leaves create_portable_copy
CpcAdminCheck ==
    /\ sPc = "create_portable_copy"
    /\ sSteps' = Append(sSteps, "create_portable_copy")
    /\ IF sAdmin
       THEN /\ sPc' = "cpc_prepare"
            /\ UNCHANGED <<sError, sRaised, sCpc>>
       ELSE /\ SRaise("Administrator privileges are required to create a portable copy.",
                      "setup_except")
            /\ sCpc' = [outcome |-> "raised", at |-> sWaited, result |-> NoResult]
    /\ UNCHANGED <<sAdmin, sSleep, sWaited, sExists, sRunning, sKills, sTask,
                   sMarkerAt, sResult>>
    /\ UNCHANGED notSetup

\* lines 221-226: makedirs (which may raise), taskkill (check=False), then
\* time.sleep(2) begins
CpcPrepare ==
    /\ sPc = "cpc_prepare"
    /\ \E made \in BOOLEAN :
          IF made
          THEN /\ sKills' = sKills + 1
               /\ sRunning' = FALSE
               /\ sSleep' = CPC_KILL_WAIT_SECONDS
               /\ sPc' = "cpc_kill_wait"
               /\ UNCHANGED <<sError, sRaised>>
          ELSE /\ SRaise("OSError", "cpc_except")
               /\ UNCHANGED <<sKills, sRunning, sSleep>>
    /\ UNCHANGED <<sAdmin, sWaited, sExists, sTask, sMarkerAt, sSteps, sCpc, sResult>>
    /\ UNCHANGED notSetup

\* lines 234-239: schtasks /Create ... /F (check=True)
CpcCreateTask ==
    /\ sPc = "cpc_kill_wait"
    /\ sSleep = 0
    /\ \E ok \in BOOLEAN :
          IF ok
          THEN /\ sTask' = [sTask EXCEPT !.present = TRUE]
               /\ sPc' = "cpc_create_again"
               /\ UNCHANGED <<sError, sRaised>>
          ELSE /\ SRaise("Command failed", "cpc_except")
               /\ UNCHANGED sTask
    /\ UNCHANGED <<sAdmin, sSleep, sWaited, sExists, sRunning, sKills, sMarkerAt,
                   sSteps, sCpc, sResult>>
    /\ UNCHANGED notSetup

\* lines 240-247: the task is created a second time, wrapped in cmd /c
CpcCreateTaskAgain ==
    /\ sPc = "cpc_create_again"
    /\ \E ok \in BOOLEAN :
          IF ok
          THEN /\ sTask' = [sTask EXCEPT !.present = TRUE]
               /\ sPc' = "cpc_run"
               /\ UNCHANGED <<sError, sRaised>>
          ELSE /\ SRaise("Command failed", "cpc_except")
               /\ UNCHANGED sTask
    /\ UNCHANGED <<sAdmin, sSleep, sWaited, sExists, sRunning, sKills, sMarkerAt,
                   sSteps, sCpc, sResult>>
    /\ UNCHANGED notSetup

\* lines 249-251: schtasks /Run (check=True) starts NVDA in portable-export mode
CpcRunTask ==
    /\ sPc = "cpc_run"
    /\ \E ok \in BOOLEAN :
          IF ok
          THEN /\ sTask' = [sTask EXCEPT !.runs = @ + 1]
               /\ sRunning' = TRUE
               /\ sPc' = "cpc_delete"
               /\ UNCHANGED <<sError, sRaised>>
          ELSE /\ SRaise("Command failed", "cpc_except")
               /\ UNCHANGED <<sTask, sRunning>>
    /\ UNCHANGED <<sAdmin, sSleep, sWaited, sExists, sKills, sMarkerAt, sSteps,
                   sCpc, sResult>>
    /\ UNCHANGED notSetup

\* lines 253-259: schtasks /Delete (check=True), then time.sleep(10) begins
CpcDeleteTask ==
    /\ sPc = "cpc_delete"
    /\ \E ok \in BOOLEAN :
          IF ok
          THEN /\ sTask' = [sTask EXCEPT !.present = FALSE]
               /\ sSleep' = PORTABLE_WAIT_SECONDS
               /\ sPc' = "cpc_wait"
               /\ UNCHANGED <<sError, sRaised>>
          ELSE /\ SRaise("Command failed", "cpc_except")
               /\ UNCHANGED <<sTask, sSleep>>
    /\ UNCHANGED <<sAdmin, sWaited, sExists, sRunning, sKills, sMarkerAt, sSteps,
                   sCpc, sResult>>
    /\ UNCHANGED notSetup

\* the environment: the running export writes <portable>/nvda.exe
MarkerAppears ==
    /\ sPc \in {"cpc_delete", "cpc_wait"}
    /\ sTask.runs > 0
    /\ sMarkerAt = -1
    /\ sMarkerAt' = sWaited
    /\ UNCHANGED <<sAdmin, sPc, sSleep, sWaited, sExists, sRunning, sKills, sTask,
                   sSteps, sError, sRaised, sCpc, sResult>>
    /\ UNCHANGED notSetup

\* lines 261-273: one look at the marker once the sleep is over
CpcVerify ==
    /\ sPc = "cpc_wait"
    /\ sSleep = 0
    /\ IF sMarkerAt # -1
       THEN /\ sKills' = sKills + 1
            /\ sRunning' = FALSE
            /\ sCpc' = [outcome |-> "returned", at |-> sWaited,
                        result |-> Success(<<"portable_path">>)]
            /\ sPc' = "setup_return"
            /\ UNCHANGED <<sError, sRaised>>
       ELSE /\ SRaise("Portable copy was not created successfully", "cpc_except")
            /\ UNCHANGED <<sKills, sRunning, sCpc>>
    /\ UNCHANGED <<sAdmin, sSleep, sWaited, sExists, sTask, sMarkerAt, sSteps, sResult>>
    /\ UNCHANGED notSetup

\* lines 274-277: create_portable_copy's handler returns a failure result
CpcExcept ==
    /\ sPc = "cpc_except"
    /\ sCpc' = [outcome |-> "returned", at |-> sWaited,
                result |-> Failure("Failed to create portable copy: " \o sError)]
    /\ sError' = ""
    /\ UNCHANGED sRaised
    /\ sPc' = "setup_return"
    /\ UNCHANGED <<sAdmin, sSleep, sWaited, sExists, sRunning, sKills, sTask,
                   sMarkerAt, sSteps, sResult>>
    /\ UNCHANGED notSetup

\* lines 300-303: setup_nvda returns create_portable_copy's result
SetupReturn ==
    /\ sPc = "setup_return"
    /\ sResult' = [done |-> TRUE, result |-> sCpc.result]
    /\ sPc' = "done"
    /\ UNCHANGED <<sAdmin, sSleep, sWaited, sExists, sRunning, sKills, sTask,
                   sMarkerAt, sSteps, sError, sRaised, sCpc>>
    /\ UNCHANGED notSetup

\* lines 305-308: setup_nvda's handler returns a failure result
SetupExcept ==
    /\ sPc = "setup_except"
    /\ sResult' = [done |-> TRUE, result |-> Failure(sError)]
    /\ sError' = ""
    /\ UNCHANGED sRaised
    /\ sPc' = "done"
    /\ UNCHANGED <<sAdmin, sSleep, sWaited, sExists, sRunning, sKills, sTask,
                   sMarkerAt, sSteps, sCpc>>
    /\ UNCHANGED notSetup

-----------------------------------------------------------------------------
\* clone_nvda_plugin.py

\* lines 65-69, in the order they are checked
REQUIRED_FILES ==
    << "manifest.ini",
       "globalPlugins/CommandSocket/__init__.py",
       "synthDrivers/captureSpeech/__init__.py" >>

RequiredSet == { REQUIRED_FILES[i] : i \in 1..Len(REQUIRED_FILES) }

AbsentDir == [exists |-> FALSE, files |-> {}]

\* What requests.get(repo_url) brings: it raises, or answers with a status
\* and a body that is or is not a zip archive, with or without
\* nvda-at-automation-main/NVDAPlugin, holding some of the required files.
NoBundle ==
    [raises |-> FALSE, status |-> 0, zipOk |-> FALSE, hasPluginDir |-> FALSE, files |-> {}]

Bundles ==
    { [NoBundle EXCEPT !.raises = TRUE],
      [NoBundle EXCEPT !.status = 404],
      [NoBundle EXCEPT !.status = 200],
      [NoBundle EXCEPT !.status = 200, !.zipOk = TRUE] }
    \cup { [raises |-> FALSE, status |-> 200, zipOk |-> TRUE, hasPluginDir |-> TRUE,
            files |-> f] : f \in SUBSET RequiredSet }

\* lines 71-75: the first required file the bundle lacks, "" when none
FirstMissing(files) ==
    IF \A i \in 1..Len(REQUIRED_FILES) : REQUIRED_FILES[i] \in files THEN ""
    ELSE REQUIRED_FILES[CHOOSE i \in 1..Len(REQUIRED_FILES) :
                            /\ REQUIRED_FILES[i] \notin files
                            /\ \A j \in 1..(i-1) : REQUIRED_FILES[j] \in files]

\* a clone that does not remove the directory of an earlier run
clone_nvda_plugin_keep(plugin, bundle) ==
    IF bundle.raises
    THEN [result |-> Failure("ConnectionError"), plugin |-> plugin]
    ELSE IF bundle.status # 200
    THEN [result |-> Failure("Failed to download repository: HTTP " \o ToString(bundle.status)),
          plugin |-> plugin]
    ELSE IF ~bundle.zipOk
    THEN [result |-> Failure("File is not a zip file"), plugin |-> plugin]
    ELSE IF ~bundle.hasPluginDir
    THEN [result |-> Failure("NVDAPlugin directory not found in the repository"),
          plugin |-> plugin]
    ELSE IF FirstMissing(bundle.files) # ""
    THEN [result |-> Failure("Required file not found: " \o FirstMissing(bundle.files)),
          plugin |-> plugin]
    ELSE [result |-> Success(<<"plugin_dir">>),
          plugin |-> [exists |-> TRUE, files |-> bundle.files]]

\* lines 31-96: [result, plugin]: the result dict and the NVDAPlugin
\* directory afterwards. An existing directory is removed first (34-36).
clone_nvda_plugin(plugin, bundle) ==
    IF bundle.raises
    THEN [result |-> Failure("ConnectionError"), plugin |-> AbsentDir]
    ELSE IF bundle.status # 200
    THEN [result |-> Failure("Failed to download repository: HTTP " \o ToString(bundle.status)),
          plugin |-> AbsentDir]
    ELSE IF ~bundle.zipOk
    THEN [result |-> Failure("File is not a zip file"), plugin |-> AbsentDir]
    ELSE IF ~bundle.hasPluginDir
    THEN [result |-> Failure("NVDAPlugin directory not found in the repository"),
          plugin |-> AbsentDir]
    ELSE IF FirstMissing(bundle.files) # ""
    THEN [result |-> Failure("Required file not found: " \o FirstMissing(bundle.files)),
          plugin |-> AbsentDir]
    ELSE [result |-> Success(<<"plugin_dir">>),
          plugin |-> [exists |-> TRUE, files |-> bundle.files]]

-----------------------------------------------------------------------------
\* workflow_tasks.py: the tasks and the command line

TaskNames ==
    { "get_nvda_info", "download_nvda_installer", "get_nvda_plugin",
      "create_plugin_addon", "configure_nvda", "test_nvda", "package_nvda" }

EnvNames == {"GITHUB_ENV", "NVDA_DOWNLOAD_URL", "NVDA_VERSION", "PORTABLE_PATH"}

\* the value NVDA_VERSION has when it is set
ENV_VERSION == "2024.4.2"

\* What a task hands back to the command line: its result dict, what it
\* printed to stderr itself, the lines it appended to GITHUB_ENV, the
\* filesystem it leaves and whether it opened nvda_installer.exe for writing.
Out(result, printed, appended, newFs, wrote) ==
    [result |-> result, stderr |-> printed, appended |-> appended,
     fs |-> newFs, wroteInstaller |-> wrote]

\* an except handler of a task: error_msg is printed and returned
Caught(msg, newFs, wrote) == Out(Failure(msg), <<msg>>, <<>>, newFs, wrote)

\* lines 19-53, for the command line
task_get_nvda_info(f, env, version, p, reach) ==
    LET out == get_nvda_info(version, p, reach, "GITHUB_ENV" \in env)
    IN  IF out.result.success
        THEN Out(out.result, <<>>, out.appended, f, FALSE)
        ELSE Caught(out.result.error, f, FALSE)

\* What requests.get(NVDA_DOWNLOAD_URL) brings: it raises, or a status and
\* a body that is empty or not.
NoResponse == [raises |-> FALSE, status |-> 0, empty |-> TRUE]

Responses ==
    { [NoResponse EXCEPT !.raises = TRUE] }
    \cup [raises : {FALSE}, status : {200, 304, 404, 500}, empty : BOOLEAN]

\* line 64: response.raise_for_status() raises for 4xx and 5xx
RaiseForStatus(status) == 400 <= status /\ status < 600

\* lines 55-78
download_nvda_installer(f, env, resp) ==
    IF "NVDA_DOWNLOAD_URL" \notin env
    THEN Caught("Failed to download NVDA installer: 'NVDA_DOWNLOAD_URL'", f, FALSE)
    ELSE IF resp.raises
    THEN Caught("Failed to download NVDA installer: ConnectionError", f, FALSE)
    ELSE IF RaiseForStatus(resp.status)
    THEN Caught("Failed to download NVDA installer: HTTPError " \o ToString(resp.status),
                f, FALSE)
    ELSE IF resp.empty
    THEN Caught("Failed to download NVDA installer: Downloaded file is empty or does not exist",
                [f EXCEPT !.installer = "empty"], TRUE)
    ELSE Out(Success(<<"installer_path">>), <<>>, <<>>,
             [f EXCEPT !.installer = "full"], TRUE)

\* A task that writes PLUGIN_DIR before it looks at the result of the clone.
get_nvda_plugin_early(f, env, bundle) ==
    LET c == clone_nvda_plugin(f.plugin, bundle)
        g == [f EXCEPT !.plugin = c.plugin]
    IN  IF "GITHUB_ENV" \notin env
        THEN Caught("Failed to get NVDA plugin: 'GITHUB_ENV'", g, FALSE)
        ELSE Out(c.result, <<>>, << <<"PLUGIN_DIR", "NVDAPlugin">> >>, g, FALSE)

\* lines 80-103
get_nvda_plugin(f, env, bundle) ==
    LET c == clone_nvda_plugin(f.plugin, bundle)
        g == [f EXCEPT !.plugin = c.plugin]
    IN  IF ~c.result.success
        THEN Out(c.result, <<>>, <<>>, g, FALSE)
        ELSE IF "GITHUB_ENV" \notin env
        THEN Caught("Failed to get NVDA plugin: 'GITHUB_ENV'", g, FALSE)
        ELSE Out(c.result, <<>>, << <<"PLUGIN_DIR", "NVDAPlugin">> >>, g, FALSE)

\* lines 105-129: os.chdir('NVDAPlugin') raises when the directory is
\* missing; otherwise every file of the tree is written to the archive
create_plugin_addon(f) ==
    IF ~f.plugin.exists
    THEN Caught("Failed to create addon: FileNotFoundError 'NVDAPlugin'", f, FALSE)
    ELSE Out(Success(<<"addon_path">>), <<>>, <<>>,
             [f EXCEPT !.addon = [exists |-> TRUE, files |-> f.plugin.files]], FALSE)

\* The machine a configure_nvda run finds: whether the process has
\* administrator privileges (configure_nvda.py line 213) and whether a
\* portable export would leave nvda.exe in the portable directory (line 262)
Hosts == [admin : BOOLEAN, exported : BOOLEAN]

NoHost == [admin |-> FALSE, exported |-> FALSE]

\* lines 131-155: create_portable_copy(version, nvda_path) is called with
\* one argument, which raises TypeError inside the try, before
\* create_portable_copy's body reads anything of the host
configure_nvda(f, env, host) ==
    IF "NVDA_VERSION" \notin env
    THEN Caught("Failed to configure NVDA: 'NVDA_VERSION'", f, FALSE)
    ELSE Caught("Failed to configure NVDA: create_portable_copy() missing 1 required positional argument: 'nvda_path'",
                f, FALSE)

\* test_nvda_portable.py 37-72 as a function of what the environment does
test_nvda_portable(vin) ==
    /\ ~vin.popenRaises
    /\ vin.sockRaises = "none"
    /\ ConnectSucceeded(ConnectEx(vin.listening))

\* lines 157-176
test_nvda(f, env, vin) ==
    IF "PORTABLE_PATH" \notin env
    THEN Caught("Failed to test NVDA portable: 'PORTABLE_PATH'", f, FALSE)
    ELSE IF ~test_nvda_portable(vin)
    THEN Out(Failure("NVDA portable test failed"), <<>>, <<>>, f, FALSE)
    ELSE Out(Success(<<>>), <<>>, <<>>, f, FALSE)

\* the directory PORTABLE_PATH names, as path components
PortablePath == <<"cwd", "nvda_2024.4.2_portable">>

\* the files of a portable directory, as paths relative to it
PortableTrees ==
    { {}, { <<"nvda.exe">> }, { <<"nvda.exe">>, <<"lib", "x.dll">> },
      { <<"nvda.exe">>, <<"lib", "x.dll">>, <<"lib", "sub", "x.dll">> } }

\* lines 189-191: os.walk(portable_path) with os.path.join(root, file); a
\* directory that does not exist yields nothing
Walk(dir) == IF dir.exists THEN { PortablePath \o rel : rel \in dir.files } ELSE {}

\* an archive name that keeps only the file's own name
RelPath_basename(path, base) == <<path[Len(path)]>>

\* line 192: os.path.relpath(file_path, portable_path)
RelPath(path, base) == SubSeq(path, Len(base) + 1, Len(path))

\* lines 178-203
package_nvda(f, env) ==
    LET written == [exists |-> TRUE,
                    files |-> { RelPath(q, PortablePath) : q \in Walk(f.portable) },
                    writes |-> Cardinality(Walk(f.portable))]
        g == [f EXCEPT !.zip = written]
    IN  IF "NVDA_VERSION" \notin env
        THEN Caught("Failed to package NVDA portable: 'NVDA_VERSION'", f, FALSE)
        ELSE IF "PORTABLE_PATH" \notin env
        THEN Caught("Failed to package NVDA portable: 'PORTABLE_PATH'", f, FALSE)
        ELSE IF "GITHUB_ENV" \notin env
        THEN Caught("Failed to package NVDA portable: 'GITHUB_ENV'", g, FALSE)
        ELSE Out(Success(<<"zip_path">>), <<>>,
                 << <<"ZIP_PATH", ENV_VERSION \o ".zip">> >>, g, FALSE)

\* The record of one invocation of the command line.
Invocation(task, ran, env, resp, bundle, out, exit, stderr) ==
    [task |-> task, ran |-> ran, env |-> env, resp |-> resp, bundle |-> bundle,
     result |-> out.result, appended |-> out.appended,
     wroteInstaller |-> out.wroteInstaller, exit |-> exit, stderr |-> stderr,
     host |-> NoHost]

\* a command line that exits 0 whatever the task returned
MainRun_exit0(task, env, resp, bundle, out) ==
    Invocation(task, TRUE, env, resp, bundle, out, 0,
               out.stderr \o (IF out.result.success THEN <<>> ELSE <<out.result.error>>))

\* lines 228-231: the task is called; a failure result is printed to stderr
\* and the process exits 1, otherwise it ends with exit code 0
MainRun(task, env, resp, bundle, out) ==
    Invocation(task, TRUE, env, resp, bundle, out,
               IF out.result.success THEN 0 ELSE 1,
               out.stderr \o (IF out.result.success THEN <<>> ELSE <<out.result.error>>))

\* lines 206-208 and 223-226: no task name, or one that is not in the table
MainReject(task, f) ==
    Invocation(task, FALSE, {}, NoResponse, NoBundle,
               Out(NoResult, <<>>, <<>>, f, FALSE), 1,
               IF task = ""
               THEN <<"Usage: workflow_tasks.py <task_name> [args...]">>
               ELSE <<"Unknown task: " \o task, "Available tasks">>)

\* no archive yet; `writes` counts the zipf.write calls that made an archive
AbsentZip == [exists |-> FALSE, files |-> {}, writes |-> 0]

EmptyFs ==
    [installer |-> "absent", plugin |-> AbsentDir, addon |-> AbsentDir,
     portable |-> AbsentDir, zip |-> AbsentZip]

\* A fresh working directory; the portable directory is made outside the
\* command line (configure_nvda.py run directly) and may be there or not.
WorkflowInit ==
    /\ \E tree \in PortableTrees, there \in BOOLEAN :
          fs = [EmptyFs EXCEPT !.portable =
                    IF there THEN [exists |-> TRUE, files |-> tree] ELSE AbsentDir]
    /\ ghEnv = <<>>
    /\ wRuns = 0
    /\ wLast = Invocation("<none>", FALSE, {}, NoResponse, NoBundle,
                          Out(NoResult, <<>>, <<>>, EmptyFs, FALSE), 0, <<>>)

WorkflowIdle ==
    /\ fs = EmptyFs
    /\ ghEnv = <<>>
    /\ wRuns = 0
    /\ wLast = Invocation("<none>", FALSE, {}, NoResponse, NoBundle,
                          Out(NoResult, <<>>, <<>>, EmptyFs, FALSE), 0, <<>>)

\* the effect of one invocation on the state
Invoke(inv, out) ==
    /\ wRuns' = wRuns + 1
    /\ wLast' = inv
    /\ fs' = out.fs
    /\ ghEnv' = ghEnv \o out.appended
    /\ UNCHANGED notWorkflow

\* the pages the command line is tried on
WorkflowPages == { p \in Pages : Len(p) <= 1 }

RunRejected ==
    /\ wRuns < MaxRuns
    /\ \E task \in {"", "bogus"} :
          Invoke(MainReject(task, fs), Out(NoResult, <<>>, <<>>, fs, FALSE))

RunGetNvdaInfo ==
    /\ wRuns < MaxRuns
    /\ \E env \in SUBSET {"GITHUB_ENV"}, version \in {"", ENV_VERSION},
          p \in WorkflowPages, reach \in BOOLEAN :
          LET out == task_get_nvda_info(fs, env, version, p, reach)
          IN  Invoke(MainRun("get_nvda_info", env, NoResponse, NoBundle, out), out)

RunDownloadNvdaInstaller ==
    /\ wRuns < MaxRuns
    /\ \E env \in SUBSET {"NVDA_DOWNLOAD_URL"}, resp \in Responses :
          LET out == download_nvda_installer(fs, env, resp)
          IN  Invoke(MainRun("download_nvda_installer", env, resp, NoBundle, out), out)

RunGetNvdaPlugin ==
    /\ wRuns < MaxRuns
    /\ \E env \in SUBSET {"GITHUB_ENV"}, bundle \in Bundles :
          LET out == get_nvda_plugin(fs, env, bundle)
          IN  Invoke(MainRun("get_nvda_plugin", env, NoResponse, bundle, out), out)

RunCreatePluginAddon ==
    /\ wRuns < MaxRuns
    /\ LET out == create_plugin_addon(fs)
       IN  Invoke(MainRun("create_plugin_addon", {}, NoResponse, NoBundle, out), out)

RunConfigureNvda ==
    /\ wRuns < MaxRuns
    /\ \E env \in SUBSET {"GITHUB_ENV", "NVDA_VERSION"}, host \in Hosts :
          LET out == configure_nvda(fs, env, host)
              inv == MainRun("configure_nvda", env, NoResponse, NoBundle, out)
          IN  Invoke([inv EXCEPT !.host = host], out)

RunTestNvda ==
    /\ wRuns < MaxRuns
    /\ \E env \in SUBSET {"PORTABLE_PATH"}, vin \in VerifierInputs :
          LET out == test_nvda(fs, env, vin)
          IN  Invoke(MainRun("test_nvda", env, NoResponse, NoBundle, out), out)

RunPackageNvda ==
    /\ wRuns < MaxRuns
    /\ \E env \in SUBSET {"GITHUB_ENV", "NVDA_VERSION", "PORTABLE_PATH"} :
          LET out == package_nvda(fs, env)
          IN  Invoke(MainRun("package_nvda", env, NoResponse, NoBundle, out), out)

-----------------------------------------------------------------------------
\* Specifications

ResolverNext == GetNvdaInfo \/ GetLatestMain

InitResolver == ResolverInit /\ VerifierIdle /\ SetupIdle /\ WorkflowIdle

SpecResolver == InitResolver /\ [][ResolverNext]_vars

VerifierNext ==
    \/ TestNvdaEnter
    \/ Popen
    \/ SleepTick
    \/ SocketCreate
    \/ SocketConnect
    \/ SocketClose
    \/ KillNvda
    \/ ReturnSuccess
    \/ ExceptHandler
    \/ TestNvdaReturn

InitVerifier == VerifierInit /\ ResolverIdle /\ SetupIdle /\ WorkflowIdle

SpecVerifier == InitVerifier /\ [][VerifierNext]_vars

SetupNext ==
    \/ InstallRun
    \/ InstallCheck
    \/ SetupSleepTick
    \/ InstallKill
    \/ InstallAddon
    \/ CpcAdminCheck
    \/ CpcPrepare
    \/ CpcCreateTask
    \/ CpcCreateTaskAgain
    \/ CpcRunTask
    \/ CpcDeleteTask
    \/ MarkerAppears
    \/ CpcVerify
    \/ CpcExcept
    \/ SetupReturn
    \/ SetupExcept

InitSetup == SetupInit /\ ResolverIdle /\ VerifierIdle /\ WorkflowIdle

SpecSetup == InitSetup /\ [][SetupNext]_vars

Next ==
    \/ RunRejected
    \/ RunGetNvdaInfo
    \/ RunDownloadNvdaInstaller
    \/ RunGetNvdaPlugin
    \/ RunCreatePluginAddon
    \/ RunConfigureNvda
    \/ RunTestNvda
    \/ RunPackageNvda

Init == WorkflowInit /\ ResolverIdle /\ VerifierIdle /\ SetupIdle

Spec == Init /\ [][Next]_vars

-----------------------------------------------------------------------------
\* Properties of the version resolver (SpecResolver)

ResolverRan == rPc = "done" /\ argVersion = ""

\* no line of the page matches the stable-marker pattern or the
\* leading-version pattern
NoVersionPattern(p) ==
    \A i \in 1..Len(p) : StableMatch(p[i]) = "" /\ ~VersionEntry(p[i])

\* the lines of the page that are a stable marker with an embedded version
MarkerLines(p) == { i \in 1..Len(p) : StableMatch(p[i]) # "" }

FirstMarkerVersion(p) ==
    StableMatch(p[CHOOSE i \in MarkerLines(p) : \A j \in MarkerLines(p) : i <= j])

\* C9 as stated: with no explicit version, an unreachable page or a page
\* without any matching version pattern makes the resolver fail; it returns
\* no version.
C9_FailsWithoutPattern ==
    (ResolverRan /\ (~reachable \/ NoVersionPattern(page))) => rLatest.raised

\* C9 amended: with no explicit version, an unreachable page makes the
\* resolver raise, and get_nvda_info then returns a failure result and
\* appends nothing; a reachable page without any matching version pattern
\* makes the resolver return the hard-coded version 2024.4.2.
C9_FallbackOrRaise ==
    ResolverRan =>
        /\ ~reachable =>
              /\ rLatest.raised
              /\ ~rResult.success
              /\ rResult.error # ""
              /\ rEnvFile = <<>>
        /\ (reachable /\ NoVersionPattern(page)) =>
              rLatest = Returned(FALLBACK_VERSION)

C9_Witness ==
    /\ ResolverRan
    /\ reachable
    /\ Len(page) > 0
    /\ NoVersionPattern(page)
    /\ rLatest = Returned("2024.4.2")

\* C10: when the page holds a stable marker line with an embedded version,
\* the resolver returns the version of that line (of the first one), whatever
\* else the page lists; a listed entry is used only when no marker line
\* yields a version.
C10_StableMarkerWins ==
    (ResolverRan /\ reachable /\ MarkerLines(page) # {}) =>
        rLatest = Returned(FirstMarkerVersion(page))

\* the URL the releases site serves each explicit version under
ExpectedUrl(v) ==
    CASE v = "2025.1.1" ->
           "https://download.nvaccess.org/releases/2025.1.1/nvda_2025.1.1.exe"
      [] v = "2023.3.5" ->
           "https://download.nvaccess.org/releases/2023.3.5/nvda_2023.3.5.exe"
      [] v = "2024.1beta1" ->
           "https://download.nvaccess.org/releases/2024.1beta1/nvda_2024.1beta1.exe"
      [] OTHER -> "<none>"

ExplicitRan == rPc = "done" /\ argVersion # ""

\* C11: a run given an explicit (non-empty) version never fetches the page;
\* whatever the page holds or whether it is reachable, with GITHUB_ENV set
\* the result carries that same version and the URL
\* <base>/<version>/nvda_<version>.exe, and exactly the two lines
\* NVDA_VERSION=<version> and NVDA_DOWNLOAD_URL=<url> are appended; nothing
\* else is ever appended by such a run.
C11_ExplicitVersionUnchanged ==
    ExplicitRan =>
        /\ rLatest = NotCalled
        /\ githubEnvSet =>
              /\ rResult = Success(<<argVersion, ExpectedUrl(argVersion)>>)
              /\ rEnvFile = << <<"NVDA_VERSION", argVersion>>,
                               <<"NVDA_DOWNLOAD_URL", ExpectedUrl(argVersion)>> >>
        /\ rEnvFile # <<>> => githubEnvSet

C11_Witness ==
    /\ ExplicitRan
    /\ argVersion = "2023.3.5"
    /\ ~reachable
    /\ StableEntry(page) # <<>> /\ StableMatch(StableEntry(page)) = "2025.1.1"
    /\ rEnvFile = << <<"NVDA_VERSION", "2023.3.5">>,
                     <<"NVDA_DOWNLOAD_URL",
                       "https://download.nvaccess.org/releases/2023.3.5/nvda_2023.3.5.exe">> >>

\* C13 for get_latest_nvda.py: every run of the script, the failing ones
\* included, ends its standard output with one JSON object that has a
\* 'success' field.
C13_FinalLineHasSuccess ==
    rPc = "script_done" =>
        /\ Len(rStdout) > 0
        /\ "success" \in rStdout[Len(rStdout)].keys

-----------------------------------------------------------------------------
\* Properties of the verifier (SpecVerifier)

\* C4: on every path of test_nvda_portable the taskkill of nvda.exe is
\* issued after the launch attempt and before the function returns.
C4_KillBeforeReturn ==
    /\ vKills >= 1 => vLaunch # "none"
    /\ vReturn.done => (vKills >= 1 /\ vLaunch # "none")

C4_Witness ==
    /\ vReturn.done
    /\ vLaunch = "raised"
    /\ vKills = 1

\* C5 as stated: test_nvda_portable makes exactly one connect attempt to
\* 127.0.0.1:8765 after the settle wait and returns True iff that connect
\* succeeds; test_nvda reports success iff test_nvda_portable returned True.
C5_ExactlyOneConnect ==
    /\ vReturn.done =>
          /\ Len(vConnects) = 1
          /\ vConnects[1].target = <<"127.0.0.1", 8765>>
          /\ vConnects[1].at >= 15
          /\ vReturn.value <=> (~vConnects[1].raised /\ vConnects[1].result = 0)
    /\ vPc = "task_done" => (vResult.success <=> (vReturn.done /\ vReturn.value))

\* C5 amended: at most one connect attempt is made, to 127.0.0.1:8765 and
\* never before the settle wait has elapsed; exactly one when the launch and
\* the socket creation did not raise; the function returns True iff that
\* attempt was made, returned 0 and no socket call raised; test_nvda reports
\* success iff test_nvda_portable returned True.
C5_AtMostOneConnect ==
    /\ Len(vConnects) <= 1
    /\ \A i \in 1..Len(vConnects) :
          /\ vConnects[i].target = <<"127.0.0.1", 8765>>
          /\ vConnects[i].at >= 15
    /\ vReturn.done =>
          /\ (vLaunch = "started" /\ vIn.sockRaises # "socket") => Len(vConnects) = 1
          /\ vReturn.value <=>
                /\ Len(vConnects) = 1
                /\ ~vConnects[1].raised
                /\ vConnects[1].result = 0
                /\ vIn.sockRaises # "close"
    /\ vPc = "task_done" => (vResult.success <=> (vReturn.done /\ vReturn.value))

C5_Witness ==
    /\ vPc = "task_done"
    /\ vResult.success
    /\ Len(vConnects) = 1
    /\ vConnects[1].result = 0

-----------------------------------------------------------------------------
\* Properties of the setup steps (SpecSetup)

\* create_portable_copy came back from its wait for the marker file
CpcWaitOver ==
    /\ sCpc.outcome = "returned"
    /\ \/ sCpc.result.success
       \/ sCpc.result.error =
            "Failed to create portable copy: Portable copy was not created successfully"

\* C3: the wait for <portable>/nvda.exe is a bounded poll: a marker that
\* appears at second k of the wait makes create_portable_copy return success
\* at second k, not later; a marker that never appears makes it return the
\* timeout failure at the maximum wait, not before.
C3_BoundedPoll ==
    CpcWaitOver =>
        /\ sMarkerAt # -1 => (sCpc.result.success /\ sCpc.at = sMarkerAt)
        /\ sMarkerAt = -1 => (~sCpc.result.success /\ sCpc.at = PORTABLE_WAIT_SECONDS)

\* C8: a step function reports every internal failure, a lack of
\* administrator privileges included, as a returned result with success
\* false and an error message; it raises nothing to its caller.
C8_StepsReturnResults ==
    /\ sCpc.outcome # "raised"
    /\ (sCpc.outcome = "returned" /\ ~sCpc.result.success) => sCpc.result.error # ""
    /\ (sResult.done /\ ~sResult.result.success) => sResult.result.error # ""

\* install_nvda got past its silent install and looked for the executable
InstallResolved ==
    /\ sSteps = <<"install_nvda">>
    /\ \/ sPc = "install_settle"
       \/ sPc = "setup_except" /\ sError # "Command failed"

\* C12: after a successful silent install, install_nvda resolves the
\* executable as find_nvda_exe does: it goes on with the first listed path
\* that holds nvda.exe, also when the default path is absent, and raises only
\* when no listed path holds it.
C12_FirstExistingPath ==
    InstallResolved =>
        /\ (sPc = "setup_except") <=> find_nvda_exe(sExists).raised
        /\ sPc = "install_settle" =>
              DefaultInstallDir = find_nvda_exe(sExists).value

\* install_nvda or create_portable_copy has returned or raised
StepLeft == sPc \in {"install_addon", "setup_except", "setup_return", "done"}

\* C15: a step that started NVDA (install_nvda through the installer's
\* auto-launch, create_portable_copy through the scheduled task) has issued
\* taskkill after that start by the time it returns or raises, so no instance
\* a step started is still running without a kill when the step is left.
C15_KillBeforeLeaving == StepLeft => ~sRunning

\* C16: whenever create_portable_copy returns, NVDA_Portable_Task has been
\* run at most once and no longer exists, also when creating it again,
\* running it or deleting it failed.
C16_TaskTransient ==
    sCpc.outcome = "returned" => (~sTask.present /\ sTask.runs <= 1)

SetupSteps == <<"install_nvda", "install_addon", "create_portable_copy">>

\* the step that was running at a place of setup_nvda
StepAt(pc) ==
    IF pc \in {"setup_nvda", "install_check", "install_settle"} THEN "install_nvda"
    ELSE IF pc = "install_addon" THEN "install_addon"
    ELSE "create_portable_copy"

\* C17: setup_nvda starts its steps in the order install_nvda, install_addon,
\* create_portable_copy, each at most once; a step that raised is the last
\* step ever started and nothing raises after it; the add-on step starts only
\* after install_nvda found the executable and issued its taskkill; setup_nvda
\* returns a failure result with the error when a step failed, and success
\* only when all three steps were started and create_portable_copy returned
\* success with no step having raised.
C17_StepsInOrder ==
    /\ Len(sSteps) <= 3
    /\ sSteps = SubSeq(SetupSteps, 1, Len(sSteps))
    /\ Len(sRaised) <= 1
    /\ sRaised # <<>> =>
          /\ StepAt(sRaised[1].at) = sSteps[Len(sSteps)]
          /\ sPc \in {"setup_except", "cpc_except", "setup_return", "done"}
    /\ Len(sSteps) >= 2 => (DefaultInstallDir \in sExists /\ sKills >= 1)
    /\ sResult.done =>
          /\ sRaised # <<>> =>
                (~sResult.result.success /\ sResult.result.error # "")
          /\ sResult.result.success =>
                /\ sSteps = SetupSteps
                /\ sRaised = <<>>
                /\ sCpc.outcome = "returned" /\ sCpc.result.success
          /\ (sSteps = SetupSteps /\ sCpc.outcome = "returned" /\ sCpc.result.success)
                => sResult.result.success

\* the add-on step failed: the portable copy was never started and the
\* result is a failure
C17_Witness ==
    /\ sResult.done
    /\ ~sResult.result.success
    /\ sSteps = <<"install_nvda", "install_addon">>
    /\ sRaised = << [at |-> "install_addon", error |-> "Error installing addon"] >>
    /\ sCpc.outcome = "none"
    /\ sTask.runs = 0

-----------------------------------------------------------------------------
\* Properties of the command line and its tasks (Spec)

InSeq(x, seq) == \E i \in 1..Len(seq) : seq[i] = x

\* C1: with no task name or one that is not in the task table no task is
\* run, a message goes to stderr and the exit code is 1; when the chosen task
\* returns a failure result its error message goes to stderr and the exit
\* code is 1; when it returns a success result the exit code is 0.
C1_ExitCodes ==
    wRuns > 0 =>
        /\ wLast.task \notin TaskNames =>
              /\ ~wLast.ran
              /\ wLast.appended = <<>>
              /\ wLast.stderr # <<>>
              /\ wLast.exit = 1
        /\ wLast.task \in TaskNames => wLast.ran
        /\ (wLast.ran /\ ~wLast.result.success) =>
              /\ InSeq(wLast.result.error, wLast.stderr)
              /\ wLast.exit = 1
        /\ (wLast.ran /\ wLast.result.success) => wLast.exit = 0

C1_Witness ==
    /\ wLast.task = "get_nvda_plugin"
    /\ wLast.ran
    /\ ~wLast.result.success
    /\ wLast.stderr = <<"NVDAPlugin directory not found in the repository">>
    /\ wLast.exit = 1

\* C2: a step that reported success has left every path it promised
\* existing and non-empty, and a step whose expected input path is missing
\* (package_nvda without the PORTABLE_PATH directory, create_plugin_addon
\* without NVDAPlugin) reports failure rather than success.
C2_PromisedPaths ==
    wLast.ran =>
        /\ wLast.result.success =>
              /\ wLast.task = "download_nvda_installer" => fs.installer = "full"
              /\ wLast.task = "get_nvda_plugin" =>
                    (fs.plugin.exists /\ fs.plugin.files # {})
              /\ wLast.task = "create_plugin_addon" => fs.addon.exists
              /\ wLast.task = "configure_nvda" =>
                    (fs.portable.exists /\ <<"nvda.exe">> \in fs.portable.files)
              /\ wLast.task = "package_nvda" => fs.zip.exists
        /\ (wLast.task = "package_nvda" /\ ~fs.portable.exists) => ~wLast.result.success
        /\ (wLast.task = "create_plugin_addon" /\ ~fs.plugin.exists) =>
              ~wLast.result.success

\* C6: when the download response has a non-2xx status or a zero-byte
\* body, download_nvda_installer reports failure and nvda_installer.exe has
\* not been written by that call.
C6_NoFileOnBadDownload ==
    (/\ wLast.task = "download_nvda_installer"
     /\ "NVDA_DOWNLOAD_URL" \in wLast.env
     /\ ~wLast.resp.raises
     /\ (wLast.resp.status \notin 200..299 \/ wLast.resp.empty)) =>
        /\ ~wLast.result.success
        /\ ~wLast.wroteInstaller

\* the fetched bundle is an archive that lacks a required file
BundleLacksRequired(b) ==
    /\ ~b.raises
    /\ b.status = 200
    /\ b.zipOk
    /\ \E i \in 1..Len(REQUIRED_FILES) : REQUIRED_FILES[i] \notin b.files

PackageSucceeded == wLast.task = "package_nvda" /\ wLast.result.success

\* C14: when package_nvda succeeds, the archive holds exactly the files of
\* the portable directory tree, at every depth, each under its path relative
\* to the portable directory, one zipf.write per file and no other entry.
C14_ArchiveMirrorsTree ==
    PackageSucceeded =>
        /\ fs.zip.exists
        /\ fs.zip.files = (IF fs.portable.exists THEN fs.portable.files ELSE {})
        /\ fs.zip.writes = Cardinality(fs.zip.files)

C14_Witness ==
    /\ PackageSucceeded
    /\ fs.zip.files = { <<"nvda.exe">>, <<"lib", "x.dll">>, <<"lib", "sub", "x.dll">> }
    /\ fs.zip.writes = 3

\* C18: a configure_nvda run with NVDA_VERSION (and GITHUB_ENV) set, on a
\* host where the process is an administrator and the portable export
\* produces nvda.exe, returns success and appends PORTABLE_PATH=<portable
\* directory> to the GITHUB_ENV file.
C18_ConfigureAppendsPortablePath ==
    ( /\ wLast.task = "configure_nvda"
      /\ {"GITHUB_ENV", "NVDA_VERSION"} \subseteq wLast.env
      /\ wLast.host.admin
      /\ wLast.host.exported ) =>
        /\ wLast.result.success
        /\ wLast.appended = << <<"PORTABLE_PATH", "cwd/nvda_2024.4.2_portable">> >>

\* the variables a task writes to the GITHUB_ENV file, in the order written
ProducedVars(task) ==
    CASE task = "get_nvda_info" -> <<"NVDA_VERSION", "NVDA_DOWNLOAD_URL">>
      [] task = "get_nvda_plugin" -> <<"PLUGIN_DIR">>
      [] task = "configure_nvda" -> <<"PORTABLE_PATH">>
      [] task = "package_nvda" -> <<"ZIP_PATH">>
      [] OTHER -> <<>>

\* the names of the lines of the GITHUB_ENV file from line n + 1 on
NamesAfter(file, n) == [i \in 1..(Len(file) - n) |-> file[n + i][1]]

\* C19: every invocation leaves the lines already in the GITHUB_ENV file in
\* place and unchanged; it adds lines only when its task returns success,
\* and then exactly the variables that task produces; an invocation whose
\* task returns a failure result, or that runs no task, leaves the file as
\* it was.
C19_AppendOnlyOnSuccess ==
    [][ /\ Len(ghEnv') >= Len(ghEnv)
        /\ SubSeq(ghEnv', 1, Len(ghEnv)) = ghEnv
        /\ ~wLast'.result.success => ghEnv' = ghEnv
        /\ ghEnv' # ghEnv =>
              NamesAfter(ghEnv', Len(ghEnv)) = ProducedVars(wLast'.task) ]_vars

\* a failing package_nvda run after get_nvda_info and get_nvda_plugin
\* appended their variables
C19_Witness ==
    /\ wLast.task = "package_nvda"
    /\ wLast.ran
    /\ ~wLast.result.success
    /\ Len(ghEnv) = 3
    /\ NamesAfter(ghEnv, 0) = <<"NVDA_VERSION", "NVDA_DOWNLOAD_URL", "PLUGIN_DIR">>

====
